---- MODULE Spec2Model ----
(***************************************************************************)
(* A model of mindsdb/api/mysql/mysql_proxy/utilities/sql.py: query_df,    *)
(* infer_column_type and infer_and_convert_types.                          *)
(*                                                                         *)
(* Python values are records [t |-> type name, v |-> repr], columns are    *)
(* records [name, dtype, vals] (a pandas Series with its label), relations *)
(* are sequences of columns (a pandas DataFrame).  The libraries the file  *)
(* calls (numpy/pandas conversions, the mindsdb_sql traversal and          *)
(* renderer, the duckdb engine) are modelled by what they do on the        *)
(* values of the model's universe; where the outcome is the library's or   *)
(* the engine's choice it is a nondeterministic choice of the action.      *)
(***************************************************************************)
EXTENDS Integers, Sequences, FiniteSets, TLC

VARIABLES
    pc,            \* position of the query_df call
    query,         \* the caller's query argument (never written by query_df)
    session,       \* the session argument: "None" or the session's database
    query_ast,     \* the local, rewritten tree
    table_name,    \* sql.py:42
    json_columns,  \* sql.py:45
    df,            \* the relation the local name df is bound to
    caller_df,     \* the relation object the caller passed in
    df_is_caller,  \* TRUE while df is still the caller's object
    df0,           \* the caller's relation at the time of the call
    query_str,     \* sql.py:85/90
    renders,       \* the render.get_string calls so far, each with its outcome
    con,           \* the engine session: "none", "open", "closed"
    registered,    \* the views of the session: a set of [name, rel]
    engine_log,    \* the engine calls made so far, in order
    executed,      \* the statements the session was given to execute
    result_df,     \* what fetchdf returned: [labels, description]
    returned,      \* the column labels of the returned frame
    exc,           \* the exception query_df raised, "none" if none
    pd_mixed_dates,\* whether this pandas build parses numbers as dates
    nz,            \* infer_and_convert_types, stepped column by column
    calls,         \* two concurrent query_df calls: the locals of each
    heap,          \* the relation objects those calls hold, by identity
    sessions       \* the engine sessions those calls opened, by identity

vars == <<pc, query, session, query_ast, table_name, json_columns, df,
          caller_df, df_is_caller, df0, query_str, renders, con, registered,
          engine_log, executed, result_df, returned, exc, pd_mixed_dates, nz,
          calls, heap, sessions>>

\* the state of the concurrent calls
two == <<calls, heap, sessions>>

-----------------------------------------------------------------------------
(* Bounds of the model *)

\* rows of a relation given to query_df
MaxRows == 2
\* rows of a column given to infer_and_convert_types on its own
MaxLen == 3
\* stands for sample_size=100 (sql.py:144): columns longer than this exist
sample_size == 2
\* entries of a target list
MaxTargets == 2

-----------------------------------------------------------------------------
(* Python values *)

Val(t, v) == [t |-> t, v |-> v]
Err(cls)  == [t |-> "raise", v |-> cls]
IsErr(x)  == x.t = "raise"

StrNum   == Val("str", "1")
StrDate  == Val("str", "2020-01-01")
StrText  == Val("str", "abc")
Int7     == Val("int", "7")
BigInt   == Val("int", "10**400")
Dict1    == Val("dict", "{'k': 1}")
DictBad  == Val("dict", "{'k': <object>}")
List1    == Val("list", "[1, 2]")
Tuple1   == Val("tuple", "(1, 2)")
NoneV    == Val("NoneType", "None")

\* float(v) as numpy's object -> float64 cast applies it (None becomes nan)
PyFloat(x) ==
    CASE x.t = "str" /\ x.v = "1"        -> Val("float", "1.0")
      [] x.t = "str"                     -> Err("ValueError")
      [] x.t = "int" /\ x.v = "10**400"  -> Err("OverflowError")
      [] x.t = "int"                     -> Val("float", "7.0")
      [] x.t = "float"                   -> x
      [] x.t = "NoneType"                -> Val("float", "nan")
      [] OTHER                           -> Err("TypeError")

\* pd.to_datetime on one element
PyDatetime(x) ==
    CASE x.t = "str" /\ x.v = "2020-01-01" -> Val("Timestamp", "2020-01-01")
      [] x.t = "str" /\ x.v = "1" ->
            IF pd_mixed_dates THEN Val("Timestamp", "0001") ELSE Err("ValueError")
      [] x.t = "str"                       -> Err("ParserError")
      [] x.t = "int" /\ x.v = "10**400"    -> Err("ValueError")
      [] x.t = "int" ->
            IF pd_mixed_dates THEN Val("Timestamp", "1970-01-01") ELSE Err("ValueError")
      [] x.t = "Timestamp"                 -> x
      [] x.t = "NoneType"                  -> Val("Timestamp", "NaT")
      [] OTHER                             -> Err("TypeError")

\* int(v) as numpy's object -> int64 cast applies it
PyInt(x) ==
    CASE x.t = "str" /\ x.v = "1"        -> Val("int", "1")
      [] x.t = "str"                     -> Err("ValueError")
      [] x.t = "int" /\ x.v = "10**400"  -> Err("OverflowError")
      [] x.t = "int"                     -> x
      [] x.t = "float" /\ x.v = "7.0"    -> Val("int", "7")
      [] x.t = "float" /\ x.v = "1.0"    -> Val("int", "1")
      [] x.t = "float"                   -> Err("ValueError")
      [] OTHER                           -> Err("TypeError")

\* str(v)
PyStr(x) == Val("str", x.v)

-----------------------------------------------------------------------------
(* Columns (pandas Series) *)

Col(name, dtype, vals) == [name |-> name, dtype |-> dtype, vals |-> vals]

Ok(c)       == [exc |-> "none", col |-> c]
Raise(cls, c) == [exc |-> cls, col |-> c]

\* the first element conversion that raised, in element order; 0 if none
FirstErr(s) ==
    IF \E i \in 1..Len(s) : IsErr(s[i])
    THEN CHOOSE i \in 1..Len(s) : IsErr(s[i]) /\ \A j \in 1..(i-1) : ~IsErr(s[j])
    ELSE 0

\* Series.astype / pd.to_datetime: all elements convert, or the first failure raises
\* out is the conversion of each element of the column
Convert(column, out, dtype) ==
    LET e == FirstErr(out)
    IN  IF e = 0 THEN Ok(Col(column.name, dtype, out))
        ELSE Raise(out[e].v, column)

astype_float(column) ==
    Convert(column, [k \in 1..Len(column.vals) |-> PyFloat(column.vals[k])], "float64")
to_datetime(column) ==
    Convert(column, [k \in 1..Len(column.vals) |-> PyDatetime(column.vals[k])],
            "datetime64[ns]")
astype_int(column) ==
    Convert(column, [k \in 1..Len(column.vals) |-> PyInt(column.vals[k])], "int64")
\* astype(str) keeps the object dtype: pandas stores str in object columns
astype_str(column) ==
    Convert(column, [k \in 1..Len(column.vals) |-> PyStr(column.vals[k])], "object")

is_object_dtype(column) == column.dtype = "object"
is_datetime64_any_dtype(column) == column.dtype = "datetime64[ns]"

\* pd.errors.ParserError is a ValueError
Catches(handler, cls) ==
    \/ cls \in handler
    \/ cls = "ParserError" /\ "ValueError" \in handler

infer_column_type(column) ==
    IF ~is_object_dtype(column) THEN Ok(column)
    ELSE IF is_datetime64_any_dtype(column) THEN Ok(column)
    ELSE LET f == astype_float(column) IN
         IF f.exc = "none" \/ ~Catches({"ValueError", "TypeError"}, f.exc) THEN f
    ELSE LET d == to_datetime(column) IN
         IF d.exc = "none"
            \/ ~Catches({"ParserError", "ValueError", "TypeError"}, d.exc) THEN d
    ELSE LET i == astype_int(column) IN
         IF i.exc = "none" \/ ~Catches({"ValueError", "TypeError"}, i.exc) THEN i
    ELSE astype_str(column)

-----------------------------------------------------------------------------
(* Relations (pandas DataFrames) and infer_and_convert_types *)

NRows(rel) == IF Len(rel) = 0 THEN 0 ELSE Len(rel[1].vals)

Min(a, b) == IF a < b THEN a ELSE b

\* Series.sample(k): k distinct rows, in a random order
Samples(n) ==
    LET k == Min(sample_size, n)
    IN  {s \in [1..k -> 1..n] : \A i, j \in 1..k : i # j => s[i] # s[j]}

SampleOf(column, idx) ==
    Col(column.name, column.dtype, [i \in 1..Len(idx) |-> column.vals[idx[i]]])

\* the commit that converts the whole column to the type found for the sample
CommitSampleType(column, sample_data, inferred_column) ==
    IF inferred_column.dtype # sample_data.dtype
    THEN CASE inferred_column.dtype = "float64"        -> astype_float(column)
           [] inferred_column.dtype = "datetime64[ns]" -> to_datetime(column)
           [] inferred_column.dtype = "int64"          -> astype_int(column)
           [] OTHER                                    -> astype_str(column)
    ELSE Ok(column)

\* sql.py:153-155, given the column inferred for the sample
Commit(column, sample_data, inferred_column) ==
    IF inferred_column.dtype # sample_data.dtype
    THEN infer_column_type(column)
    ELSE Ok(column)

\* one iteration of the loop of sql.py:145-155 on the rows idx drew
ColumnStep(column, idx) ==
    LET sample_data == SampleOf(column, idx)
        inferred    == infer_column_type(sample_data)
    IN  IF inferred.exc # "none" THEN Raise(inferred.exc, column)
        ELSE Commit(column, sample_data, inferred.col)

\* every outcome of infer_and_convert_types on rel from column i on:
\* [exc, df], df being the relation as the call left it (it works in place)
RECURSIVE InferFrom(_, _)
InferFrom(rel, i) ==
    IF i > Len(rel) THEN {[exc |-> "none", df |-> rel]}
    ELSE UNION {
        LET r == ColumnStep(rel[i], idx)
        IN  IF r.exc # "none" THEN {[exc |-> r.exc, df |-> rel]}
            ELSE InferFrom([rel EXCEPT ![i] = r.col], i + 1)
        : idx \in Samples(NRows(rel)) }

infer_and_convert_types(rel) == InferFrom(rel, 1)

-----------------------------------------------------------------------------
(* The query tree (mindsdb_sql.parser.ast) *)

Node(type, parts, op, args, value) ==
    [type |-> type, parts |-> parts, op |-> op, args |-> args, value |-> value]

Identifier(parts) == Node("Identifier", parts, "", <<>>, "")
Function(op, args) == Node("Function", <<>>, op, args, "")
BinaryOperation(op, args) == Node("BinaryOperation", <<>>, op, args, "")
\* Constant(value): value is the repr of a Python value, "None" for None
Constant(value)   == Node("Constant", <<>>, "", <<>>, value)
\* a bare Python int 0 put into the tree (sql.py:63 appends 0, not Constant(0))
PyZero            == Node("int", <<>>, "", <<>>, "0")
NoneNode          == Node("NoneType", <<>>, "", <<>>, "None")
Join              == Node("Join", <<>>, "", <<>>, "")
SubSelect         == Node("Select", <<>>, "", <<>>, "")

\* str.lower() on the names of the model
Lower(s) ==
    CASE s = "DATABASE"     -> "database"
      [] s = "Database"     -> "database"
      [] s = "TRUNCATE"     -> "truncate"
      [] s = "Truncate"     -> "truncate"
      [] s = "JSON_EXTRACT" -> "json_extract"
      [] s = "UPPER"        -> "upper"
      [] s = "MODELS"       -> "models"
      [] s = "Models"       -> "models"
      [] s = "Predictors"   -> "predictors"
      [] s = "MODELS_VERSIONS" -> "models_versions"
      [] s = "MINDSDB"      -> "mindsdb"
      [] s = "A"            -> "a"
      [] s = "B"            -> "b"
      [] s = "TRAINING_OPTIONS" -> "training_options"
      [] OTHER              -> s

Last(s) == s[Len(s)]

\* the test of sql.py:56 without the argument count
IsDatabaseNamed(fnc_name, args) == fnc_name = "database"

\* sql.py:56: the call that is replaced by the current database
IsDatabaseCall(fnc_name, args) == fnc_name = "database" /\ Len(args) = 0

\* sql.py:57: "None" stands for None, any other string for session.database
cur_db(sess) == sess

\* the rename to round without the default precision
TruncateArgsKept(args) == args

\* sql.py:62-63: the arguments of the call renamed to round
TruncateArgs(args) == IF Len(args) = 1 THEN Append(args, PyZero) ELSE args

\* the qualifier kept in place of the column's name
QualifierParts(parts) == <<parts[1]>>

\* sql.py:52: [node.parts[-1]]
BareParts(parts) == <<Last(parts)>>

\* sql.py:47-65.  ret is what the callback returns (NoneNode for None), node
\* is the node as the callback left it, json what it added to json_columns.
adapt_query(node, is_table, sess) ==
    LET none == [ret |-> NoneNode, node |-> node, json |-> {}, exc |-> "none"]
    IN
    IF is_table THEN none
    ELSE IF node.type = "Identifier" /\ Len(node.parts) > 1
    THEN LET n2 == [node EXCEPT !.parts = BareParts(node.parts)]
         IN  [none EXCEPT !.ret = n2, !.node = n2]
    ELSE IF node.type = "Function"
    THEN LET fnc_name == Lower(node.op) IN
         IF IsDatabaseCall(fnc_name, node.args)
         THEN [none EXCEPT !.ret = Constant(cur_db(sess))]
         ELSE IF fnc_name = "truncate"
         THEN [none EXCEPT !.node =
                 [node EXCEPT !.op = "round", !.args = TruncateArgs(node.args)]]
         ELSE IF fnc_name = "json_extract"
         THEN IF Len(node.args) = 0 THEN [none EXCEPT !.exc = "IndexError"]
              ELSE IF node.args[1].type # "Identifier"
              THEN [none EXCEPT !.exc = "AttributeError"]
              ELSE [none EXCEPT !.json = {Last(node.args[1].parts)}]
         ELSE none
    ELSE none

\* mindsdb_sql.planner.utils.query_traversal below the Select: the callback
\* first; a node it returns replaces the visited one and is not entered;
\* otherwise the arguments of a function or operation are visited in order.
RECURSIVE query_traversal(_, _, _), TraverseList(_, _)
query_traversal(node, is_table, sess) ==
    LET cb == adapt_query(node, is_table, sess) IN
    IF cb.exc # "none" THEN [node |-> node, json |-> {}, exc |-> cb.exc]
    ELSE IF cb.ret # NoneNode THEN [node |-> cb.ret, json |-> cb.json, exc |-> "none"]
    ELSE IF cb.node.type \in {"Function", "BinaryOperation"}
    THEN LET a == TraverseList(cb.node.args, sess)
         IN  [node |-> [cb.node EXCEPT !.args = a.nodes],
              json |-> cb.json \cup a.json, exc |-> a.exc]
    ELSE [node |-> cb.node, json |-> cb.json, exc |-> "none"]

TraverseList(nodes, sess) ==
    IF nodes = <<>> THEN [nodes |-> <<>>, json |-> {}, exc |-> "none"]
    ELSE LET h == query_traversal(Head(nodes), FALSE, sess) IN
         IF h.exc # "none" THEN [nodes |-> nodes, json |-> h.json, exc |-> h.exc]
         ELSE LET t == TraverseList(Tail(nodes), sess)
              IN  [nodes |-> <<h.node>> \o t.nodes,
                   json |-> h.json \cup t.json, exc |-> t.exc]

\* query_traversal(query_ast, adapt_query), sql.py:67, on the Select: its
\* from_table (in table position), targets, where and order_by, in that order
TraverseSelect(q, sess) ==
    LET f == query_traversal(q.from_table, TRUE, sess)
        t == TraverseList(q.targets, sess)
        w == IF q.where = NoneNode
             THEN [node |-> NoneNode, json |-> {}, exc |-> "none"]
             ELSE query_traversal(q.where, FALSE, sess)
        o == TraverseList(q.order_by, sess)
        e == IF t.exc # "none" THEN t.exc
             ELSE IF w.exc # "none" THEN w.exc ELSE o.exc
    IN  [ast  |-> [q EXCEPT !.from_table = f.node, !.targets = t.nodes,
                            !.where = w.node, !.order_by = o.nodes],
         json |-> t.json \cup w.json \cup o.json,
         exc  |-> e]

-----------------------------------------------------------------------------
(* The inputs of the model *)

Select(src, from_table, targets, where, order_by) ==
    [src |-> src, root |-> "Select", from_table |-> from_table,
     targets |-> targets, where |-> where, order_by |-> order_by]

T == Identifier(<<"t">>)
A == Identifier(<<"a">>)

Ops == {"database", "DATABASE", "truncate", "TRUNCATE",
        "json_extract", "JSON_EXTRACT", "upper"}
Atoms == {A, Identifier(<<"t", "a">>), Constant("1")}
ArgLists ==
    {<<>>} \cup {<<x>> : x \in Atoms}
           \cup {<<x, y>> : x \in Atoms, y \in {Constant("2"), Identifier(<<"t", "b">>)}}
Calls  == {Function(op, a) : op \in Ops, a \in ArgLists}
Nested == {Function(o1, <<Function(o2, a)>>) :
             o1 \in {"upper", "TRUNCATE"}, o2 \in Ops,
             a \in {<<>>, <<Identifier(<<"t", "a">>)>>}}
Exprs  == Atoms \cup Calls \cup Nested

\* the columns a target list of several entries names
TargetPool == {A, Identifier(<<"A">>), Identifier(<<"t", "a">>),
               Function("TRUNCATE", <<A>>)}
TargetLists == UNION {[1..n -> TargetPool] : n \in 1..MaxTargets}

Conditions == {BinaryOperation(">", <<e, Constant("1")>>) :
                 e \in {A, Identifier(<<"t", "a">>), Function("DATABASE", <<>>),
                        Function("truncate", <<Identifier(<<"t", "a">>)>>),
                        Function("json_extract", <<Identifier(<<"t", "a">>), Constant("$.k")>>),
                        Function("json_extract", <<Constant("{}"), Constant("$.k")>>)}}

\* queries that read table t, with every expression of the model
RichQueries ==
    {Select("ast", T, <<e>>, NoneNode, <<>>) : e \in Exprs}
    \cup {Select("ast", T, tl, NoneNode, <<>>) : tl \in TargetLists}
    \cup {Select("ast", T, <<A>>, w, <<>>) : w \in Conditions}
    \cup {Select("ast", T, <<A>>, NoneNode, <<e>>) :
            e \in {Identifier(<<"t", "a">>), Identifier(<<"mindsdb", "t", "a">>),
                   Function("Truncate", <<A>>), Function("database", <<>>)}}
    \cup {Select("str", T, <<e>>, NoneNode, <<>>) : e \in TargetPool}

TableParts == {<<"t">>, <<"models">>, <<"Models">>, <<"MODELS">>, <<"Predictors">>,
               <<"MODELS_VERSIONS">>, <<"mindsdb", "models">>, <<"models", "t">>}

JsonExtract(col) == Function("json_extract", <<col, Constant("$.k")>>)

\* queries whose outcome depends on the relation: by the table's name
TableQueries ==
    {Select("ast", Identifier(parts), <<A>>, NoneNode, <<>>) : parts \in TableParts}

\* and by the columns json_extract reads
JsonQueries ==
    {Select("ast", T, <<JsonExtract(c)>>, NoneNode, <<>>) :
            c \in {A, Identifier(<<"t", "TRAINING_OPTIONS">>), Identifier(<<"t", "b">>)}}
    \cup {Select("ast", Identifier(<<"models">>),
                 <<JsonExtract(Identifier(<<"TRAINING_OPTIONS">>))>>, NoneNode, <<>>)}
    \cup {Select("ast", T, <<JsonExtract(A), JsonExtract(Identifier(<<"id">>))>>,
                 NoneNode, <<>>)}

\* queries query_df does not accept: another root, or a source that is no
\* single table identifier; and text that parse_sql rejects
BadQueries ==
    {[src |-> "ast", root |-> r, from_table |-> f, targets |-> <<A>>,
      where |-> NoneNode, order_by |-> <<>>] :
        r \in {"Insert", "Union"}, f \in {T, NoneNode}}
    \cup {Select(src, f, <<A>>, NoneNode, <<>>) :
            src \in {"ast", "str"}, f \in {NoneNode, Join, SubSelect}}
    \cup {Select("badstr", NoneNode, <<>>, NoneNode, <<>>)}

\* the values of an object column given to query_df
PipeValues == {StrText, Int7, Dict1, DictBad, List1, Tuple1}
ValSeqs(S, n) == UNION {[1..k -> S] : k \in 0..n}

IdCol(n) == Col("id", "int64", [i \in 1..n |-> Int7])

TrainingRelations ==
    {<<IdCol(Len(v)), Col("TRAINING_OPTIONS", "object", v)>> : v \in ValSeqs(PipeValues, MaxRows)}
    \cup {<<Col("TRAINING_OPTIONS", "int64", [i \in 1..n |-> Int7])>> : n \in 0..MaxRows}

PlainRelations ==
    {<<IdCol(Len(v)), Col("a", "object", v)>> : v \in ValSeqs(PipeValues, MaxRows)}

Relations == TrainingRelations \cup PlainRelations

CoreRelations ==
    {<<IdCol(2), Col("a", "object", <<StrNum, StrText>>)>>,
     <<IdCol(1), Col("a", "object", <<Dict1>>)>>}

Sessions == {"None", "sales"}

\* the calls of the model: every query on a few relations, with and without a
\* session; the queries that depend on the relation on every relation they
\* depend on
RelationsFor(q, sess) ==
    (IF q \in RichQueries \cup BadQueries THEN CoreRelations ELSE {})
    \cup (IF q \in TableQueries /\ sess = "None"
          THEN TrainingRelations \cup CoreRelations ELSE {})
    \cup (IF q \in JsonQueries /\ sess = "None" THEN Relations ELSE {})

-----------------------------------------------------------------------------
(* query_df, statement by statement *)

NoCol == Col("", "", <<>>)
NzIdle == [phase |-> "idle", i |-> 0, idx |-> <<>>, inferred |-> NoCol]
NoResult == [labels |-> <<>>, description |-> <<>>]
NoQuery == Select("none", NoneNode, <<>>, NoneNode, <<>>)
NoQueryStr == [ast |-> NoQuery, with_failback |-> FALSE]

Init ==
    /\ query \in RichQueries \cup BadQueries \cup TableQueries \cup JsonQueries
    /\ session \in Sessions
    /\ df \in RelationsFor(query, session)
    /\ caller_df = df /\ df0 = df
    \* no column of these relations mixes date text with numbers
    /\ pd_mixed_dates = FALSE
    /\ pc = "start"
    /\ query_ast = NoQuery
    /\ table_name = ""
    /\ json_columns = {}
    /\ df_is_caller = TRUE
    /\ query_str = NoQueryStr
    /\ renders = <<>>
    /\ con = "none"
    /\ registered = {}
    /\ engine_log = <<>>
    /\ executed = <<>>
    /\ result_df = NoResult
    /\ returned = <<>>
    /\ exc = "none"
    /\ nz = NzIdle
    /\ calls = <<>> /\ heap = <<>> /\ sessions = <<>>

\* raise cls out of query_df
Raises(cls) == pc' = "raised" /\ exc' = cls

\* df[...] = ...: the assignment writes the object df is bound to
WriteDf(rel) ==
    /\ df' = rel
    /\ caller_df' = IF df_is_caller THEN rel ELSE caller_df

\* sql.py:30-33
Parse ==
    /\ pc = "start"
    /\ IF query.src = "badstr"
       THEN /\ Raises("ParsingException")
            /\ UNCHANGED query_ast
       ELSE /\ query_ast' = query
            /\ pc' = "parsed"
            /\ exc' = exc
    /\ UNCHANGED <<query, session, table_name, json_columns, df, caller_df,
                   df_is_caller, df0, query_str, renders, con, registered,
                   engine_log, executed, result_df, returned, pd_mixed_dates, nz, two>>

\* CheckShape without the test of the root
IsIdentifierSource(q) == q.from_table.type = "Identifier"

IsSingleTableSelect(q) ==
    q.root = "Select" /\ q.from_table.type = "Identifier"

\* sql.py:35-45
CheckShape ==
    /\ pc = "parsed"
    /\ IF ~IsSingleTableSelect(query_ast)
       THEN /\ Raises("Exception")
            /\ UNCHANGED <<query_ast, table_name>>
       ELSE /\ table_name' = query_ast.from_table.parts[1]
            /\ query_ast' = [query_ast EXCEPT !.from_table.parts = <<"df_table">>]
            /\ pc' = "checked"
            /\ exc' = exc
    /\ json_columns' = {}
    /\ UNCHANGED <<query, session, df, caller_df, df_is_caller, df0, query_str,
                   renders, con, registered, engine_log, executed, result_df, returned,
                   pd_mixed_dates, nz, two>>

\* sql.py:47-67
Traverse ==
    /\ pc = "checked"
    /\ LET r == TraverseSelect(query_ast, session) IN
       IF r.exc # "none"
       THEN /\ Raises(r.exc)
            /\ UNCHANGED <<query_ast, json_columns>>
       ELSE /\ query_ast' = r.ast
            /\ json_columns' = r.json
            /\ pc' = "traversed"
            /\ exc' = exc
    /\ UNCHANGED <<query, session, table_name, df, caller_df, df_is_caller, df0,
                   query_str, renders, con, registered, engine_log, executed, result_df,
                   returned, pd_mixed_dates, nz, two>>

\* CustomJSONEncoder().encode(v): the JSON text of v, or a raise
Encode(v) ==
    IF v = DictBad THEN Err("TypeError") ELSE Val("str", "json:" \o v.v)

\* _convert that encodes mappings only
_convert_dict_only(v) ==
    IF v.t = "dict" /\ ~IsErr(Encode(v)) THEN Encode(v) ELSE v

\* sql.py:72-78
_convert(v) ==
    IF v.t \in {"dict", "list"} /\ ~IsErr(Encode(v)) THEN Encode(v) ELSE v

ColIndex(rel, name) ==
    IF \E i \in 1..Len(rel) : rel[i].name = name
    THEN CHOOSE i \in 1..Len(rel) : rel[i].name = name
    ELSE 0

\* df[column] = df[column].apply(_convert)
ApplyConvert(rel, name) ==
    LET i == ColIndex(rel, name)
    IN  [rel EXCEPT ![i] = Col(rel[i].name, rel[i].dtype,
                               [k \in 1..Len(rel[i].vals) |-> _convert(rel[i].vals[k])])]

Perms(S) ==
    {p \in [1..Cardinality(S) -> S] :
        \A i, j \in 1..Cardinality(S) : i # j => p[i] # p[j]}

\* the loop of sql.py:80-81 over the columns in the order the set yields them:
\* [exc, df], a missing column raising KeyError with the earlier ones written
RECURSIVE ConvertLoop(_, _)
ConvertLoop(rel, order) ==
    IF order = <<>> THEN [exc |-> "none", df |-> rel]
    ELSE IF ColIndex(rel, Head(order)) = 0 THEN [exc |-> "KeyError", df |-> rel]
    ELSE ConvertLoop(ApplyConvert(rel, Head(order)), Tail(order))

\* sql.py:69-81
ConvertJson ==
    /\ pc = "traversed"
    /\ \E order \in Perms(json_columns) :
         LET r == ConvertLoop(df, order) IN
         /\ WriteDf(r.df)
         /\ IF r.exc # "none" THEN Raises(r.exc)
            ELSE pc' = "converted" /\ exc' = exc
    /\ UNCHANGED <<query, session, query_ast, table_name, json_columns,
                   df_is_caller, df0, query_str, renders, con, registered,
                   engine_log, executed, result_df, returned, pd_mixed_dates, nz, two>>

\* sql.py:83-85: render.get_string(query_ast, with_failback=False)
RenderStrict ==
    /\ pc = "converted"
    /\ \E ok \in BOOLEAN :
         IF ok THEN /\ renders' = Append(renders, "strict:ok")
                    /\ query_str' = [ast |-> query_ast, with_failback |-> FALSE]
                    /\ pc' = "rendered"
               ELSE /\ renders' = Append(renders, "strict:raised")
                    /\ query_str' = query_str
                    /\ pc' = "strict_raised"
    /\ UNCHANGED <<query, session, query_ast, table_name, json_columns, df,
                   caller_df, df_is_caller, df0, con, registered, engine_log,
                   executed, result_df, returned, exc, pd_mixed_dates, nz, two>>

\* a handler that renders leniently again when the lenient rendering raises
RenderLenientRetries ==
    /\ pc = "strict_raised"
    /\ Len(renders) < 4
    /\ \E ok \in BOOLEAN :
         IF ok THEN /\ renders' = Append(renders, "lenient:ok")
                    /\ query_str' = [ast |-> query_ast, with_failback |-> TRUE]
                    /\ pc' = "rendered"
               ELSE /\ renders' = Append(renders, "lenient:raised")
                    /\ query_str' = query_str
                    /\ pc' = pc
    /\ UNCHANGED <<query, session, query_ast, table_name, json_columns, df,
                   caller_df, df_is_caller, df0, con, registered, engine_log,
                   executed, result_df, returned, exc, pd_mixed_dates, nz, two>>

\* sql.py:86-90: the handler logs and renders with with_failback=True
RenderLenient ==
    /\ pc = "strict_raised"
    /\ \E ok \in BOOLEAN :
         IF ok THEN /\ renders' = Append(renders, "lenient:ok")
                    /\ query_str' = [ast |-> query_ast, with_failback |-> TRUE]
                    /\ pc' = "rendered"
                    /\ exc' = exc
               ELSE /\ renders' = Append(renders, "lenient:raised")
                    /\ query_str' = query_str
                    /\ Raises("RenderError")
    /\ UNCHANGED <<query, session, query_ast, table_name, json_columns, df,
                   caller_df, df_is_caller, df0, con, registered, engine_log,
                   executed, result_df, returned, pd_mixed_dates, nz, two>>

KnownTables == {"models", "predictors", "models_versions"}

\* the value astype('string') stores for v
PyString(v) == IF v.t = "NoneType" THEN Val("NAType", "<NA>") ELSE Val("str", v.v)

\* df.astype({name: 'string'}): a new frame
astype_string(rel, name) ==
    LET i == ColIndex(rel, name)
    IN  [rel EXCEPT ![i] = Col(rel[i].name, "string",
                               [k \in 1..Len(rel[i].vals) |-> PyString(rel[i].vals[k])])]

\* the test of sql.py:93 without lower()
NeedsWorkaroundExactCase(rel, tname) ==
    /\ NRows(rel) > 0
    /\ tname \in KnownTables
    /\ ColIndex(rel, "TRAINING_OPTIONS") # 0

NeedsWorkaround(rel, tname) ==
    /\ NRows(rel) > 0
    /\ Lower(tname) \in KnownTables
    /\ ColIndex(rel, "TRAINING_OPTIONS") # 0

\* sql.py:92-95
Workaround ==
    /\ pc = "rendered"
    /\ IF NeedsWorkaround(df, table_name)
       THEN /\ df' = astype_string(df, "TRAINING_OPTIONS")
            /\ df_is_caller' = FALSE
       ELSE UNCHANGED <<df, df_is_caller>>
    /\ pc' = "worked"
    /\ UNCHANGED <<query, session, query_ast, table_name, json_columns,
                   caller_df, df0, query_str, renders, con, registered,
                   engine_log, executed, result_df, returned, exc, pd_mixed_dates, nz, two>>

\* sql.py:97
Connect ==
    /\ pc = "worked"
    /\ con' = "open"
    /\ engine_log' = Append(engine_log, "connect")
    /\ pc' = "connected"
    /\ UNCHANGED <<query, session, query_ast, table_name, json_columns, df,
                   caller_df, df_is_caller, df0, query_str, renders, registered,
                   executed, result_df, returned, exc, pd_mixed_dates, nz, two>>

\* sql.py:99-100
Normalize ==
    /\ pc = "connected"
    /\ \E r \in infer_and_convert_types(df) :
         /\ WriteDf(r.df)
         /\ IF r.exc # "none" THEN Raises(r.exc)
            ELSE pc' = "normalized" /\ exc' = exc
    /\ UNCHANGED <<query, session, query_ast, table_name, json_columns,
                   df_is_caller, df0, query_str, renders, con, registered,
                   engine_log, executed, result_df, returned, pd_mixed_dates, nz, two>>

\* sql.py:102: con.register('df_table', df); the engine may refuse the frame
Register ==
    /\ pc = "normalized"
    /\ engine_log' = Append(engine_log, "register")
    /\ \E ok \in BOOLEAN :
         IF ok THEN /\ registered' = {v \in registered : v.name # "df_table"}
                                     \cup {[name |-> "df_table", rel |-> df]}
                    /\ pc' = "registered"
                    /\ exc' = exc
               ELSE /\ registered' = registered
                    /\ Raises("duckdb.Error")
    /\ UNCHANGED <<query, session, query_ast, table_name, json_columns, df,
                   caller_df, df_is_caller, df0, query_str, renders, con,
                   executed, result_df, returned, pd_mixed_dates, nz, two>>

\* sql.py:103, con.execute(query_str): the engine runs the statement or raises
Execute ==
    /\ pc = "registered"
    /\ engine_log' = Append(engine_log, "execute")
    /\ executed' = Append(executed, query_str)
    /\ \E ok \in BOOLEAN :
         IF ok THEN pc' = "executed" /\ exc' = exc
               ELSE Raises("duckdb.Error")
    /\ UNCHANGED <<query, session, query_ast, table_name, json_columns, df,
                   caller_df, df_is_caller, df0, query_str, renders, con,
                   registered, result_df, returned, pd_mixed_dates, nz, two>>

\* the label the engine reports for an output expression
EngineLabel(node) ==
    CASE node.type = "Identifier" -> Last(node.parts)
      [] node.type = "Function"   -> node.op
      [] OTHER                    -> node.value

\* the labels con.description may report for the targets: the engine's name of
\* each output column, in the case of the statement or in lower case
Descriptions(targets) ==
    {d \in [1..Len(targets) -> {EngineLabel(targets[i]) : i \in 1..Len(targets)}
                               \cup {Lower(EngineLabel(targets[i])) : i \in 1..Len(targets)}] :
        \A i \in 1..Len(targets) :
            d[i] \in {EngineLabel(targets[i]), Lower(EngineLabel(targets[i]))}}

\* the labels of the fetched frame when it renames repeated labels
Dedup(d) ==
    [i \in 1..Len(d) |-> IF \E j \in 1..(i-1) : d[j] = d[i] THEN d[i] \o "_1" ELSE d[i]]

\* sql.py:103-105, .fetchdf(), replace and con.description: the frame's labels
\* and the description's are the engine's, one per output column
Fetch ==
    /\ pc = "executed"
    /\ engine_log' = Append(engine_log, "fetchdf")
    /\ \/ \E d \in Descriptions(query_str.ast.targets) :
          \E l \in {d, Dedup(d)} :
             /\ result_df' = [labels |-> l, description |-> d]
             /\ pc' = "fetched"
             /\ exc' = exc
       \/ /\ Raises("duckdb.Error")
          /\ result_df' = result_df
    /\ UNCHANGED <<query, session, query_ast, table_name, json_columns, df,
                   caller_df, df_is_caller, df0, query_str, renders, con,
                   registered, executed, returned, pd_mixed_dates, nz, two>>

\* query_df without line 106
UnregisterSkipped ==
    /\ pc = "fetched"
    /\ pc' = "unregistered"
    /\ UNCHANGED <<query, session, query_ast, table_name, json_columns, df,
                   caller_df, df_is_caller, df0, query_str, renders, con,
                   registered, engine_log, executed, result_df, returned, exc,
                   pd_mixed_dates, nz, two>>

\* sql.py:106
Unregister ==
    /\ pc = "fetched"
    /\ engine_log' = Append(engine_log, "unregister")
    /\ registered' = {v \in registered : v.name # "df_table"}
    /\ pc' = "unregistered"
    /\ UNCHANGED <<query, session, query_ast, table_name, json_columns, df,
                   caller_df, df_is_caller, df0, query_str, renders, con,
                   executed, result_df, returned, exc, pd_mixed_dates, nz, two>>

\* sql.py:107
Close ==
    /\ pc = "unregistered"
    /\ engine_log' = Append(engine_log, "close")
    /\ con' = "closed"
    /\ pc' = "closed"
    /\ UNCHANGED <<query, session, query_ast, table_name, json_columns, df,
                   caller_df, df_is_caller, df0, query_str, renders, registered,
                   executed, result_df, returned, exc, pd_mixed_dates, nz, two>>

Range(f) == {f[i] : i \in DOMAIN f}

\* sql.py:109-112: the dict keyed by the frame's labels, a later entry of the
\* same key replacing the earlier one
new_column_names(labels, real_column_names) ==
    [c \in Range(labels) |->
        LET last == CHOOSE i \in 1..Len(labels) :
                        labels[i] = c /\ \A j \in (i+1)..Len(labels) : labels[j] # c
        IN  real_column_names[last]]

\* rename whose result is dropped
RenameKeepsLabels(labels, mapping) == labels

\* sql.py:113-116: DataFrame.rename(mapping, axis='columns')
Rename(labels, mapping) == [i \in 1..Len(labels) |-> mapping[labels[i]]]

\* sql.py:109-117
Return ==
    /\ pc = "closed"
    /\ returned' = Rename(result_df.labels,
                          new_column_names(result_df.labels, result_df.description))
    /\ pc' = "returned"
    /\ UNCHANGED <<query, session, query_ast, table_name, json_columns, df,
                   caller_df, df_is_caller, df0, query_str, renders, con,
                   registered, engine_log, executed, result_df, exc,
                   pd_mixed_dates, nz, two>>

Next ==
    \/ Parse \/ CheckShape \/ Traverse \/ ConvertJson
    \/ RenderStrict \/ RenderLenient \/ Workaround \/ Connect \/ Normalize
    \/ Register \/ Execute \/ Fetch \/ Unregister \/ Close \/ Return

Spec == Init /\ [][Next]_vars

-----------------------------------------------------------------------------
(* infer_and_convert_types called on its own, one statement at a time *)

InferValues == {StrNum, StrDate, StrText, Int7, BigInt, Dict1}

InferRelations ==
    UNION {{ <<Col("a", "object", v)>>,
             <<Col("a", "object", v), IdCol(Len(v))>> }
           : v \in ValSeqs(InferValues, MaxLen)}
    \cup {<<Col("a", "datetime64[ns]", [i \in 1..n |-> Val("Timestamp", "2020-01-01")])>>
            : n \in 0..MaxLen}
    \cup {<<Col("a", "string", [i \in 1..n |-> StrNum])>> : n \in 0..MaxLen}

InitInfer ==
    /\ df \in InferRelations
    /\ caller_df = df /\ df0 = df
    /\ df_is_caller = TRUE
    /\ pd_mixed_dates \in BOOLEAN
    /\ nz = [NzIdle EXCEPT !.phase = "loop", !.i = 1]
    /\ pc = "idle"
    /\ query = NoQuery
    /\ session = "None"
    /\ query_ast = NoQuery
    /\ table_name = ""
    /\ json_columns = {}
    /\ query_str = NoQueryStr
    /\ renders = <<>>
    /\ con = "none"
    /\ registered = {}
    /\ engine_log = <<>>
    /\ executed = <<>>
    /\ result_df = NoResult
    /\ returned = <<>>
    /\ exc = "none"
    /\ calls = <<>> /\ heap = <<>> /\ sessions = <<>>

pipeline == <<pc, query, session, query_ast, table_name, json_columns, query_str,
              renders, con, registered, engine_log, executed, result_df, returned,
              exc, two>>

\* sql.py:145-147: the next column, and the rows sample() draws
NzSample ==
    /\ nz.phase = "loop" /\ nz.i <= Len(df)
    /\ \E idx \in Samples(NRows(df)) :
         nz' = [nz EXCEPT !.phase = "sampled", !.idx = idx]
    /\ UNCHANGED <<df, caller_df, df_is_caller, df0, pd_mixed_dates, pipeline>>

\* sql.py:150
NzInfer ==
    /\ nz.phase = "sampled"
    /\ LET r == infer_column_type(SampleOf(df[nz.i], nz.idx)) IN
       nz' = IF r.exc # "none"
             THEN [nz EXCEPT !.phase = "raised"]
             ELSE [nz EXCEPT !.phase = "inferred", !.inferred = r.col]
    /\ UNCHANGED <<df, caller_df, df_is_caller, df0, pd_mixed_dates, pipeline>>

\* sql.py:153-155
NzCommit ==
    /\ nz.phase = "inferred"
    /\ LET r == Commit(df[nz.i], SampleOf(df[nz.i], nz.idx), nz.inferred) IN
       IF r.exc # "none"
       THEN /\ nz' = [nz EXCEPT !.phase = "raised"]
            /\ UNCHANGED <<df, caller_df>>
       ELSE /\ nz' = [nz EXCEPT !.phase = "loop", !.i = nz.i + 1]
            /\ WriteDf([df EXCEPT ![nz.i] = r.col])
    /\ UNCHANGED <<df_is_caller, df0, pd_mixed_dates, pipeline>>

\* sql.py:157
NzReturn ==
    /\ nz.phase = "loop" /\ nz.i > Len(df)
    /\ nz' = [nz EXCEPT !.phase = "returned"]
    /\ UNCHANGED <<df, caller_df, df_is_caller, df0, pd_mixed_dates, pipeline>>

NextInfer == NzSample \/ NzInfer \/ NzCommit \/ NzReturn

SpecInfer == InitInfer /\ [][NextInfer]_vars

-----------------------------------------------------------------------------
(* Two query_df calls running concurrently, statement by statement.  Each    *)
(* call has its own locals (calls[c]); the relation objects live in heap and  *)
(* a call holds one by its identity, so two calls may be given the same       *)
(* object; the engine sessions live in sessions, a session's views naming the *)
(* relation object registered and, for the properties, the call that          *)
(* registered it.                                                             *)

CallIds == {1, 2}

TwoQueries ==
    {Select("ast", T, <<A>>, NoneNode, <<>>),
     Select("ast", T, <<JsonExtract(Identifier(<<"t", "a">>))>>, NoneNode, <<>>),
     Select("ast", Identifier(<<"Models">>), <<A>>, NoneNode, <<>>),
     Select("ast", Join, <<A>>, NoneNode, <<>>)}

TwoRelations ==
    {<<IdCol(1), Col("a", "object", <<Dict1>>)>>,
     <<IdCol(1), Col("a", "object", <<StrNum>>)>>,
     <<IdCol(1), Col("TRAINING_OPTIONS", "object", <<Dict1>>)>>}

NoView == [name |-> "", obj |-> 0, by |-> 0, session |-> 0]

NewCall(q, obj) ==
    [pc |-> "start", query |-> q, query_ast |-> NoQuery, table_name |-> "",
     json_columns |-> {}, df |-> obj, query_str |-> NoQueryStr, con |-> 0,
     ran |-> NoView, exc |-> "none"]

\* the single call's variables, which the concurrent calls do not use
one == <<pc, query, session, query_ast, table_name, json_columns, df,
         caller_df, df_is_caller, df0, query_str, renders, con, registered,
         engine_log, executed, result_df, returned, exc, pd_mixed_dates, nz>>

InitTwo ==
    /\ \E q1, q2 \in TwoQueries :
       \E shared \in BOOLEAN :
          /\ heap \in IF shared THEN {<<r>> : r \in TwoRelations}
                      ELSE {<<r1, r2>> : r1, r2 \in TwoRelations}
          /\ calls = <<NewCall(q1, 1), NewCall(q2, IF shared THEN 1 ELSE 2)>>
    /\ sessions = <<>>
    /\ pd_mixed_dates = FALSE
    /\ df = <<>> /\ caller_df = <<>> /\ df0 = <<>>
    /\ df_is_caller = TRUE
    /\ nz = NzIdle
    /\ pc = "idle"
    /\ query = NoQuery
    /\ session = "None"
    /\ query_ast = NoQuery
    /\ table_name = ""
    /\ json_columns = {}
    /\ query_str = NoQueryStr
    /\ renders = <<>>
    /\ con = "none"
    /\ registered = {}
    /\ engine_log = <<>>
    /\ executed = <<>>
    /\ result_df = NoResult
    /\ returned = <<>>
    /\ exc = "none"

At(c, where) == calls[c].pc = where

Goes(c, where) == calls' = [calls EXCEPT ![c].pc = where]

TwoRaises(c, cls) == calls' = [calls EXCEPT ![c].pc = "raised", ![c].exc = cls]

\* sql.py:30-67: parse or copy, shape test, table_name, alias and traversal,
\* all on the call's own copy of the tree
TwoRewrite(c) ==
    /\ At(c, "start")
    /\ LET q == calls[c].query IN
       IF ~IsSingleTableSelect(q) THEN TwoRaises(c, "Exception")
       ELSE LET r == TraverseSelect([q EXCEPT !.from_table.parts = <<"df_table">>],
                                    "None")
            IN  IF r.exc # "none" THEN TwoRaises(c, r.exc)
                ELSE calls' = [calls EXCEPT ![c].pc = "traversed",
                                            ![c].table_name = q.from_table.parts[1],
                                            ![c].query_ast = r.ast,
                                            ![c].json_columns = r.json]
    /\ UNCHANGED <<heap, sessions, one>>

\* sql.py:80-81: writes the relation object the call was given
TwoConvertJson(c) ==
    /\ At(c, "traversed")
    /\ \E order \in Perms(calls[c].json_columns) :
         LET r == ConvertLoop(heap[calls[c].df], order) IN
         /\ heap' = [heap EXCEPT ![calls[c].df] = r.df]
         /\ IF r.exc # "none" THEN TwoRaises(c, r.exc) ELSE Goes(c, "converted")
    /\ UNCHANGED <<sessions, one>>

\* sql.py:83-90: the strict rendering, the lenient one if it raised
TwoRender(c) ==
    /\ At(c, "converted")
    /\ \/ \E fb \in BOOLEAN :
            calls' = [calls EXCEPT ![c].pc = "rendered",
                        ![c].query_str = [ast |-> calls[c].query_ast,
                                          with_failback |-> fb]]
       \/ TwoRaises(c, "RenderError")
    /\ UNCHANGED <<heap, sessions, one>>

\* sql.py:92-95: astype makes a new relation object
TwoWorkaround(c) ==
    /\ At(c, "rendered")
    /\ IF NeedsWorkaround(heap[calls[c].df], calls[c].table_name)
       THEN /\ heap' = Append(heap, astype_string(heap[calls[c].df], "TRAINING_OPTIONS"))
            /\ calls' = [calls EXCEPT ![c].pc = "worked", ![c].df = Len(heap) + 1]
       ELSE /\ heap' = heap
            /\ Goes(c, "worked")
    /\ UNCHANGED <<sessions, one>>

\* one connection object that every call uses
TwoConnectShared(c) ==
    /\ At(c, "worked")
    /\ sessions' = IF sessions = <<>>
                   THEN <<[open |-> TRUE, views |-> {}, by |-> c]>>
                   ELSE [sessions EXCEPT ![1].open = TRUE]
    /\ calls' = [calls EXCEPT ![c].pc = "connected", ![c].con = 1]
    /\ UNCHANGED <<heap, one>>

\* sql.py:97: duckdb.connect(database=':memory:') makes a new database and a
\* new connection to it on every call
TwoConnect(c) ==
    /\ At(c, "worked")
    /\ sessions' = Append(sessions, [open |-> TRUE, views |-> {}, by |-> c])
    /\ calls' = [calls EXCEPT ![c].pc = "connected", ![c].con = Len(sessions) + 1]
    /\ UNCHANGED <<heap, one>>

\* sql.py:99-100: writes the relation object df is bound to
TwoNormalize(c) ==
    /\ At(c, "connected")
    /\ \E r \in infer_and_convert_types(heap[calls[c].df]) :
         /\ heap' = [heap EXCEPT ![calls[c].df] = r.df]
         /\ IF r.exc # "none" THEN TwoRaises(c, r.exc) ELSE Goes(c, "normalized")
    /\ UNCHANGED <<sessions, one>>

\* sql.py:102: the view df_table of the call's connection, replacing one of
\* that name
TwoRegister(c) ==
    /\ At(c, "normalized")
    /\ LET s == calls[c].con IN
       \/ /\ sessions[s].open
          /\ sessions' = [sessions EXCEPT ![s].views =
                            {v \in @ : v.name # "df_table"}
                            \cup {[name |-> "df_table", obj |-> calls[c].df, by |-> c]}]
          /\ Goes(c, "registered")
       \/ /\ sessions' = sessions
          /\ TwoRaises(c, "duckdb.Error")
    /\ UNCHANGED <<heap, one>>

\* the view a statement that reads name resolves to in session s
Resolve(s, name) ==
    IF sessions[s].open /\ \E v \in sessions[s].views : v.name = name
    THEN LET v == CHOOSE v \in sessions[s].views : v.name = name
         IN  [name |-> v.name, obj |-> v.obj, by |-> v.by, session |-> s]
    ELSE NoView

\* sql.py:103, con.execute(query_str): the statement reads FROM df_table
TwoExecute(c) ==
    /\ At(c, "registered")
    /\ LET v == Resolve(calls[c].con, "df_table") IN
       \/ /\ v # NoView
          /\ calls' = [calls EXCEPT ![c].pc = "executed", ![c].ran = v]
       \/ TwoRaises(c, "duckdb.Error")
    /\ UNCHANGED <<heap, sessions, one>>

\* sql.py:103-105: fetchdf, replace, description
TwoFetch(c) ==
    /\ At(c, "executed")
    /\ \/ Goes(c, "fetched")
       \/ TwoRaises(c, "duckdb.Error")
    /\ UNCHANGED <<heap, sessions, one>>

\* sql.py:106
TwoUnregister(c) ==
    /\ At(c, "fetched")
    /\ sessions' = [sessions EXCEPT ![calls[c].con].views =
                      {v \in @ : v.name # "df_table"}]
    /\ Goes(c, "unregistered")
    /\ UNCHANGED <<heap, one>>

\* sql.py:107
TwoClose(c) ==
    /\ At(c, "unregistered")
    /\ sessions' = [sessions EXCEPT ![calls[c].con].open = FALSE]
    /\ Goes(c, "closed")
    /\ UNCHANGED <<heap, one>>

\* sql.py:109-117
TwoReturn(c) ==
    /\ At(c, "closed")
    /\ Goes(c, "returned")
    /\ UNCHANGED <<heap, sessions, one>>

NextTwo ==
    \E c \in CallIds :
        \/ TwoRewrite(c) \/ TwoConvertJson(c) \/ TwoRender(c) \/ TwoWorkaround(c)
        \/ TwoConnect(c) \/ TwoNormalize(c) \/ TwoRegister(c) \/ TwoExecute(c)
        \/ TwoFetch(c) \/ TwoUnregister(c) \/ TwoClose(c) \/ TwoReturn(c)

SpecTwo == InitTwo /\ [][NextTwo]_vars

-----------------------------------------------------------------------------
(* Properties of query_df *)

Exited == pc \in {"returned", "raised"}
SessionOpened == \E i \in 1..Len(engine_log) : engine_log[i] = "connect"
Count(log, e) == Cardinality({i \in 1..Len(log) : log[i] = e})

\* C1: whenever query_df has exited after opening an engine session, whether
\* it returned or raised, df_table is unregistered and the session is closed.
C1_SessionReleasedOnEveryExit ==
    (Exited /\ SessionOpened) =>
        /\ con = "closed"
        /\ registered = {}
        /\ Count(engine_log, "close") = 1

\* the part of C1 the code keeps: a call that returns has released its session
C1_ReleasedOnReturn ==
    pc = "returned" => (con = "closed" /\ registered = {})

\* a query whose parsed root is no Select or whose source is no identifier
BadShape(q) ==
    q.src # "badstr" /\ (q.root # "Select" \/ q.from_table.type # "Identifier")

\* C2: a call whose query is not a Select from one table identifier never gets
\* past the shape test: it makes no engine call, opens no session, holds no
\* result, and the only way it ends is by raising Exception.
C2_BadShapeRejectedBeforeEngine ==
    BadShape(query) =>
        /\ pc \in {"start", "parsed", "raised"}
        /\ engine_log = <<>> /\ con = "none" /\ registered = {}
        /\ executed = <<>> /\ result_df = NoResult /\ returned = <<>>
        /\ pc = "raised" => exc = "Exception"

C2_Witness ==
    /\ BadShape(query) /\ pc = "raised" /\ exc = "Exception"
    /\ query.root = "Select" /\ query.from_table = Join

\* the name a target-list entry asks for
RequestedName(node) ==
    CASE node.type = "Identifier" -> Last(node.parts)
      [] node.type = "Function"   -> node.op
      [] OTHER                    -> node.value

AllIdentifiers(targets) == \A i \in 1..Len(targets) : targets[i].type = "Identifier"

MaxOf(S) == CHOOSE m \in S : \A x \in S : x <= m

IsPrefix(a, b) == Len(a) <= Len(b) /\ \A i \in 1..Len(a) : a[i] = b[i]

SessionCalls == <<"connect", "register", "execute", "fetchdf", "unregister", "close">>

\* JSON encoding (sql.py:80-81), then the known-table workaround (sql.py:93-95),
\* then type normalization (sql.py:100), of the caller's relation
Prepared(rel, cols, tname) ==
    LET enc == ConvertLoop(rel, CHOOSE o \in Perms(cols) : TRUE).df
        wrk == IF NeedsWorkaround(enc, tname)
               THEN astype_string(enc, "TRAINING_OPTIONS") ELSE enc
    IN  {r.df : r \in {x \in infer_and_convert_types(wrk) : x.exc = "none"}}

\* C4: the engine calls are always a prefix of connect, register, execute,
\* fetch, unregister, close, and a call that returns has made all of them once;
\* the one statement executed is the rendered one; what is registered is held
\* under df_table and, when the registration is made, is the caller's relation
\* after JSON encoding, the known-table workaround and type normalization, in
\* that order.
C4_EngineCallsInOrder ==
    /\ IsPrefix(engine_log, SessionCalls)
    /\ pc = "returned" => (engine_log = SessionCalls /\ executed = <<query_str>>)
    /\ Len(executed) <= 1
    /\ \A v \in registered : v.name = "df_table"
    /\ pc = "registered" =>
         \A v \in registered : v.rel \in Prepared(df0, json_columns, table_name)
    /\ Cardinality(registered) <= 1
    /\ pc \in {"registered", "executed", "fetched"} => registered # {}

C4_Witness ==
    /\ pc = "returned"
    /\ json_columns # {}
    /\ \E i \in 1..Len(df0) : \E k \in 1..Len(df0[i].vals) : df0[i].vals[k] = Dict1

RenderHistories ==
    {<<>>, <<"strict:ok">>, <<"strict:raised">>,
     <<"strict:raised", "lenient:ok">>, <<"strict:raised", "lenient:raised">>}

\* C5: the strict rendering comes first and the lenient one follows only a
\* strict rendering that raised, once; when the lenient rendering raises too,
\* query_df raises with no engine session opened; no engine call is repeated.
C5_StrictThenLenientOnce ==
    /\ renders \in RenderHistories
    /\ \A i \in 1..Len(renders) :
         renders[i] \in {"lenient:ok", "lenient:raised"} =>
            i = 2 /\ renders[1] = "strict:raised"
    /\ (renders # <<>> /\ Last(renders) = "lenient:raised") =>
         /\ pc = "raised" /\ exc = "RenderError"
         /\ engine_log = <<>> /\ con = "none"
    /\ (renders # <<>> /\ Last(renders) = "lenient:ok") => query_str.with_failback
    /\ (renders # <<>> /\ Last(renders) = "strict:ok") => ~query_str.with_failback
    /\ \A e \in Range(SessionCalls) : Count(engine_log, e) <= 1

C5_Witness ==
    /\ renders = <<"strict:raised", "lenient:raised">>
    /\ pc = "raised"

-----------------------------------------------------------------------------
(* Properties of the type normalizer *)

\* the first of float, temporal, integer, text that converts the whole column
FirstSuccess(column) ==
    IF astype_float(column).exc = "none" THEN astype_float(column).col
    ELSE IF to_datetime(column).exc = "none" THEN to_datetime(column).col
    ELSE IF astype_int(column).exc = "none" THEN astype_int(column).col
    ELSE astype_str(column).col

AllAre(column, v) == \A k \in 1..Len(column.vals) : column.vals[k] = v

\* C6: the normalizer never raises on an object column; what it infers is the
\* first of float, temporal, integer, text that converts the column; columns
\* of numeric text end numeric, of date text temporal, of other text text,
\* whether or not they are longer than the sample.
C6_FirstConversionNeverRaises ==
    /\ nz.phase # "raised"
    /\ (nz.phase = "inferred" /\ df[nz.i].dtype = "object") =>
          nz.inferred = FirstSuccess(SampleOf(df[nz.i], nz.idx))
    /\ (nz.phase = "returned" /\ df0[1].dtype = "object" /\ df0[1].vals # <<>>) =>
          /\ AllAre(df0[1], StrNum)  => df[1].dtype = "float64"
          /\ AllAre(df0[1], StrDate) => df[1].dtype = "datetime64[ns]"
          /\ AllAre(df0[1], StrText) => df[1] = df0[1]

HasValue(column, v) == \E k \in 1..Len(column.vals) : column.vals[k] = v

\* what holds of C6 in the code: the order and the three examples hold, and
\* the normalizer raises only on a column holding an integer beyond the range
\* of float, whose OverflowError no handler of infer_column_type catches
C6_OrderHoldsAndOnlyOverflowRaises ==
    /\ nz.phase = "raised" => \E i \in 1..Len(df0) : HasValue(df0[i], BigInt)
    /\ (nz.phase = "inferred" /\ df[nz.i].dtype = "object") =>
          nz.inferred = FirstSuccess(SampleOf(df[nz.i], nz.idx))
    /\ (nz.phase = "returned" /\ df0[1].dtype = "object" /\ df0[1].vals # <<>>) =>
          /\ AllAre(df0[1], StrNum)  => df[1].dtype = "float64"
          /\ AllAre(df0[1], StrDate) => df[1].dtype = "datetime64[ns]"
          /\ AllAre(df0[1], StrText) => df[1] = df0[1]

-----------------------------------------------------------------------------
(* Properties of the relation query_df registers *)

TrainingOptions(rel) == rel[ColIndex(rel, "TRAINING_OPTIONS")]

IsTextColumn(c) ==
    \/ c.dtype = "string"
    \/ c.dtype = "object" /\ c.vals # <<>> /\ \A k \in 1..Len(c.vals) : c.vals[k].t = "str"

\* C7 as stated: for a source table named models, predictors or
\* models_versions in any letter case, a TRAINING_OPTIONS column of the
\* caller's relation is a text column in the registered relation.
C7_TrainingOptionsAlwaysText ==
    \A v \in registered :
        (/\ Lower(query.from_table.parts[1]) \in KnownTables
         /\ ColIndex(df0, "TRAINING_OPTIONS") # 0)
        => IsTextColumn(TrainingOptions(v.rel))

\* C7 as the code has it: the same for a relation of at least one row, the
\* table's name being the first part of the source identifier; the column
\* then has the string dtype and holds text only.
C7_TrainingOptionsTextWhenNonEmpty ==
    \A v \in registered :
        (/\ Lower(query.from_table.parts[1]) \in KnownTables
         /\ ColIndex(df0, "TRAINING_OPTIONS") # 0
         /\ NRows(df0) > 0)
        => /\ TrainingOptions(v.rel).dtype = "string"
           /\ \A k \in 1..NRows(df0) :
                TrainingOptions(v.rel).vals[k].t \in {"str", "NAType"}

C7_Witness ==
    /\ registered # {}
    /\ query.from_table.parts[1] = "Models"
    /\ ColIndex(df0, "TRAINING_OPTIONS") # 0
    /\ TrainingOptions(df0).dtype = "object"
    /\ HasValue(TrainingOptions(df0), Dict1)
    /\ HasValue(TrainingOptions(df0), Int7)

\* C8: after the JSON step every dict or list value of a column in
\* json_columns that the encoder accepts is its JSON text, every other value
\* of the relation is the caller's value, names and dtypes are kept; a value
\* the encoder refuses raises nothing: the step raises only KeyError, for a
\* column of json_columns the relation does not have.
C8_JsonColumnsEncoded ==
    /\ pc = "converted" =>
         /\ Len(df) = Len(df0)
         /\ \A i \in 1..Len(df0) :
              /\ df[i].name = df0[i].name /\ df[i].dtype = df0[i].dtype
              /\ Len(df[i].vals) = Len(df0[i].vals)
              /\ \A k \in 1..Len(df0[i].vals) :
                   LET o == df0[i].vals[k] IN
                   df[i].vals[k] =
                      IF /\ df0[i].name \in json_columns
                         /\ o.t \in {"dict", "list"}
                         /\ ~IsErr(Encode(o))
                      THEN Encode(o) ELSE o
    /\ (pc = "raised" /\ exc = "KeyError") =>
         \E c \in json_columns : ColIndex(df0, c) = 0
    /\ (pc \in {"traversed", "raised"} /\ con = "none") => exc # "TypeError"

C8_Witness ==
    /\ pc = "converted"
    /\ \E i \in 1..Len(df0) :
         /\ df0[i].name \in json_columns
         /\ df0[i].vals = <<List1, DictBad>>
         /\ df[i].vals = <<Encode(List1), DictBad>>
    /\ \E i \in 1..Len(df0) : df0[i].name \notin json_columns

-----------------------------------------------------------------------------
(* Properties of the rewrite *)

\* the expressions of a query outside table position, in traversal order
TopNodes(q) ==
    q.targets \o (IF q.where = NoneNode THEN <<>> ELSE <<q.where>>) \o q.order_by

RECURSIVE PathsOf(_)
PathsOf(node) ==
    {<<>>} \cup UNION {{<<i>> \o p : p \in PathsOf(node.args[i])} : i \in 1..Len(node.args)}

RECURSIVE NodeAt(_, _)
NodeAt(node, path) ==
    IF path = <<>> THEN node ELSE NodeAt(node.args[Head(path)], Tail(path))

\* a node no rule of the rewrite applies to
IsPlain(node) ==
    \/ node.type = "Constant"
    \/ node.type = "Identifier" /\ Len(node.parts) = 1

Kept(o, n) == IsPlain(o) => n = o

IsCall(node, name) == node.type = "Function" /\ Lower(node.op) = name

\* C9: wherever the caller's query calls truncate, in any letter case, the
\* rewritten tree calls round at that place; a call of one argument has got
\* the integer zero as second argument, a call of two keeps both, and a plain
\* argument (a constant, an unqualified column) is the same node as before.
C9_TruncateBecomesRound ==
    pc = "traversed" =>
        \A t \in 1..Len(TopNodes(query)) :
        \A p \in PathsOf(TopNodes(query)[t]) :
            LET o == NodeAt(TopNodes(query)[t], p)
                n == NodeAt(TopNodes(query_ast)[t], p)
            IN  IsCall(o, "truncate") =>
                  /\ n.type = "Function" /\ n.op = "round"
                  /\ Len(o.args) = 1 =>
                        /\ Len(n.args) = 2
                        /\ n.args[2] = PyZero
                        /\ Kept(o.args[1], n.args[1])
                  /\ Len(o.args) = 2 =>
                        /\ Len(n.args) = 2
                        /\ Kept(o.args[1], n.args[1])
                        /\ Kept(o.args[2], n.args[2])

C9_Witness ==
    /\ pc = "traversed"
    /\ query.targets = <<Function("TRUNCATE", <<A>>)>>
    /\ query_ast.targets = <<Function("round", <<A, PyZero>>)>>

\* C10: wherever the caller's query calls database with no argument, in any
\* letter case, the rewritten tree holds the constant of the session's
\* database, the None constant when there is no session; a database call with
\* arguments is still that call.
C10_DatabaseBecomesConstant ==
    pc = "traversed" =>
        \A t \in 1..Len(TopNodes(query)) :
        \A p \in PathsOf(TopNodes(query)[t]) :
            LET o == NodeAt(TopNodes(query)[t], p)
                n == NodeAt(TopNodes(query_ast)[t], p)
            IN  IsCall(o, "database") =>
                  /\ Len(o.args) = 0 =>
                        n = Constant(IF session = "None" THEN "None" ELSE session)
                  /\ Len(o.args) > 0 =>
                        /\ n.type = "Function" /\ n.op = o.op
                        /\ Len(n.args) = Len(o.args)

C10_Witness ==
    /\ pc = "traversed"
    /\ session = "sales"
    /\ query.targets = <<Function("upper", <<Function("DATABASE", <<>>)>>)>>
    /\ query_ast.targets = <<Function("upper", <<Constant("sales")>>)>>

-----------------------------------------------------------------------------
(* Properties of two concurrent calls *)

Other(c) == 3 - c

OwnView(c) ==
    [name |-> "df_table", obj |-> calls[c].df, by |-> c]

\* C11: under every interleaving of two calls, a call that has connected holds
\* a session it opened itself, different from the other call's; while its
\* registration stands the session's views are its own df_table, naming the
\* relation object the call registered, and nothing else; the statement it
\* executes resolves df_table in its own session to the view it registered
\* itself; no view of a session was registered by the other call, and a call
\* that has unregistered finds its own session empty and, once returned, closed.
C11_SessionsIndependent ==
    /\ \A c \in CallIds :
         LET me == calls[c] IN
         /\ me.con # 0 =>
              /\ me.con \in 1..Len(sessions)
              /\ sessions[me.con].by = c
              /\ me.con # calls[Other(c)].con
         /\ me.pc \in {"registered", "executed", "fetched"} =>
              /\ sessions[me.con].open
              /\ sessions[me.con].views = {OwnView(c)}
         /\ me.ran # NoView =>
              me.ran = [name |-> "df_table", obj |-> me.df, by |-> c,
                        session |-> me.con]
         /\ me.pc \in {"unregistered", "closed", "returned"} =>
              sessions[me.con].views = {}
         /\ me.pc = "returned" => ~sessions[me.con].open
    /\ \A s \in 1..Len(sessions) :
         \A v \in sessions[s].views : v.by = sessions[s].by /\ v.name = "df_table"

\* both calls hold a registration of the same relation object at once, the
\* call that connected second executing first
C11_Witness ==
    /\ Len(calls) = 2
    /\ calls[1].pc = "executed" /\ calls[2].pc = "registered"
    /\ calls[1].df = calls[2].df
    /\ calls[2].con < calls[1].con

-----------------------------------------------------------------------------
(* Properties of the caller's relation *)

\* C12: when query_df has returned, the relation object the caller passed in
\* holds the column values and column types it held at the call.
C12_CallerRelationUnchanged ==
    pc = "returned" => caller_df = df0

-----------------------------------------------------------------------------
(* Properties of infer_and_convert_types, column by column *)

\* the loop has just finished column nz.i - 1, whose sample drew the rows nz.idx
JustCommitted == nz.phase \in {"loop", "returned"} /\ nz.i > 1

\* the column just finished as the caller gave it, and its sample
Given == df0[nz.i - 1]
GivenSample == SampleOf(Given, nz.idx)

ParsesAsNone(column) ==
    /\ astype_float(column).exc # "none"
    /\ to_datetime(column).exc # "none"
    /\ astype_int(column).exc # "none"

IsText(column) == \A k \in 1..Len(column.vals) : column.vals[k].t = "str"

\* C13: an object column whose sample converts neither to float, nor to
\* temporal, nor to integer holds text only once the loop has finished it.
C13_UnparsedColumnBecomesText ==
    (JustCommitted /\ Given.dtype = "object" /\ ParsesAsNone(GivenSample)) =>
        IsText(df[nz.i - 1])

C15_EmptyRelationUnchanged ==
    (nz.phase = "returned" /\ NRows(df0) = 0) => df = df0

\* C16: the relation infer_and_convert_types returns is the one every other
\* run on the same relation returns, whichever rows the samples draw.
C16_ResultIndependentOfSample ==
    nz.phase = "returned" =>
        \A r \in infer_and_convert_types(df0) : r.exc = "none" => r.df = df

\* what holds of C16 in the code: the same for relations of no more rows than
\* the sample has, where every draw is a reordering of the whole column
C16_ShortColumnsIndependentOfSample ==
    (nz.phase = "returned" /\ NRows(df0) <= sample_size) =>
        \A r \in infer_and_convert_types(df0) : r.exc = "none" => r.df = df

-----------------------------------------------------------------------------
(* Properties of the rewrite: json_extract and column references *)

\* the places of the query's expressions: <<t>> \o p is place p of expression t
Places(q) ==
    UNION {{<<t>> \o p : p \in PathsOf(TopNodes(q)[t])} : t \in 1..Len(TopNodes(q))}

Before(place) == NodeAt(TopNodes(query)[Head(place)], Tail(place))
After(place)  == NodeAt(TopNodes(query_ast)[Head(place)], Tail(place))

ReadsColumn(node) == Len(node.args) > 0 /\ node.args[1].type = "Identifier"

\* C17: the traversal of a query raises nothing for a json_extract call,
\* whatever its arguments; after it, every json_extract call of the query, in
\* any letter case and at any place, is still that call, with as many
\* arguments, and the last part of the column it reads is in json_columns;
\* after the JSON step every column of json_columns is in the relation, its
\* values encoded.
C17_JsonExtractAlwaysRegisters ==
    /\ (pc = "raised" /\ ~BadShape(query)) =>
          exc \notin {"AttributeError", "IndexError"}
    /\ pc = "traversed" =>
          \A place \in Places(query) :
             IsCall(Before(place), "json_extract") =>
                /\ After(place).type = "Function"
                /\ After(place).op = Before(place).op
                /\ Len(After(place).args) = Len(Before(place).args)
                /\ ReadsColumn(Before(place)) =>
                      Last(Before(place).args[1].parts) \in json_columns
    /\ pc = "converted" =>
          \A c \in json_columns :
             /\ ColIndex(df, c) # 0
             /\ \A k \in 1..NRows(df0) :
                   df[ColIndex(df, c)].vals[k] = _convert(df0[ColIndex(df0, c)].vals[k])

\* what holds of C17 in the code: the same for the calls whose first argument
\* is a column reference; the traversal raises AttributeError for a first
\* argument that is none, IndexError for a call without arguments, and
\* json_columns holds nothing but the columns such calls read
C17_ColumnArgumentRegisters ==
    /\ (pc = "raised" /\ exc \in {"AttributeError", "IndexError"}) =>
          \E place \in Places(query) :
             /\ IsCall(Before(place), "json_extract")
             /\ ~ReadsColumn(Before(place))
             /\ exc = "IndexError" <=> Before(place).args = <<>>
    /\ pc = "traversed" =>
          /\ \A place \in Places(query) :
                IsCall(Before(place), "json_extract") =>
                   /\ ReadsColumn(Before(place))
                   /\ After(place).type = "Function"
                   /\ After(place).op = Before(place).op
                   /\ Len(After(place).args) = Len(Before(place).args)
                   /\ Last(Before(place).args[1].parts) \in json_columns
          /\ \A c \in json_columns :
                \E place \in Places(query) :
                   /\ IsCall(Before(place), "json_extract")
                   /\ ReadsColumn(Before(place))
                   /\ c = Last(Before(place).args[1].parts)
    /\ pc = "converted" =>
          \A c \in json_columns :
             /\ ColIndex(df, c) # 0
             /\ \A k \in 1..NRows(df0) :
                   df[ColIndex(df, c)].vals[k] = _convert(df0[ColIndex(df0, c)].vals[k])

AfterPlaces ==
    UNION {{<<t>> \o p : p \in PathsOf(TopNodes(query_ast)[t])}
             : t \in 1..Len(TopNodes(query_ast))}

\* C18: after the traversal the source of the rewritten tree is the identifier
\* of the one part df_table; every column reference of the caller's query
\* outside table position (in the target list, WHERE, ORDER BY, at any depth
\* of function and operator arguments) is, at its place, the same reference
\* with the one part that was its last part, so a reference of one part is
\* the node it was; and the rewritten tree holds no reference of several parts.
C18_ColumnsBareTableAliased ==
    pc = "traversed" =>
        /\ query_ast.from_table = Identifier(<<"df_table">>)
        /\ \A place \in Places(query) :
              Before(place).type = "Identifier" =>
                 After(place) = [Before(place) EXCEPT !.parts = <<Last(@)>>]
        /\ \A place \in AfterPlaces :
              LET n == NodeAt(TopNodes(query_ast)[Head(place)], Tail(place))
              IN  n.type = "Identifier" => Len(n.parts) = 1

C18_Witness ==
    /\ pc = "traversed"
    /\ query.from_table = T
    /\ query.targets =
          <<Function("upper", <<Function("truncate", <<Identifier(<<"t", "a">>)>>)>>)>>
    /\ query_ast.targets = <<Function("upper", <<Function("round", <<A, PyZero>>)>>)>>
    /\ query_ast.from_table.parts = <<"df_table">>

====
